---------------------------- MODULE Spec2Model ----------------------------
(***************************************************************************)
(* Distance Vector Routing simulator (distance_vector_animated.py).        *)
(*                                                                         *)
(* The state is the dictionary `nodi` of Nodo objects (name, neighbour     *)
(* map, routing table) together with the local variables of simula().      *)
(* A Python dict is an insertion-ordered map: `nodi` and every `vicini`    *)
(* are sequences (the order is the iteration order of the code), a routing *)
(* table is a function destination -> <<next_hop, distanza>>.              *)
(* float('inf') is the value Inf, None is the string "None".               *)
(***************************************************************************)
EXTENDS Integers, Sequences, FiniteSets, TLC

\* Largest link cost of the enumerated three-node topologies.
MaxCost == 2

\* Largest link cost of the three-node topologies of the rounds whose
\* deliveries are made in an arbitrary order.
MaxCostOrdine == 1

\* Largest value of the parameter max_iter of simula.
MaxIter == 3

\* float('inf'): larger than every finite distance the model can produce.
Inf == 1000

VARIABLES
    nodi,           \* dict name -> Nodo, as a sequence of Nodo records
    max_iter,       \* parameter of simula
    pc,             \* position of the control flow of simula
    iterazione,     \* loop variable of "for iterazione in range(max_iter)":
                    \* the index of the latest round started, -1 before the
                    \* loop has assigned it
    aggiornamenti,  \* changed-count of the round in progress
    snapshot,       \* copy.deepcopy(nodi) taken at the start of the round
    k,              \* index of the next delivery of the round
    fatte,          \* positions, in Consegne(snapshot), of the deliveries done
    vettore_inviato, \* simula's vettore: the vector of the latest delivery
    ret,            \* what the call of simula gave back to its caller
    convergenza,    \* "Convergenza raggiunta" has been printed
    storia,         \* per round: the tables printed and the changed-count
    storia1,        \* the storia of the previous call of simula
    esecuzione      \* 1 for the first call of simula, 2 for the second

vars == <<nodi, max_iter, pc, iterazione, aggiornamenti, snapshot, k, fatte,
          vettore_inviato, ret, convergenza, storia, storia1, esecuzione>>

-----------------------------------------------------------------------------
(* Dictionaries *)

Range(s) == {s[x] : x \in DOMAIN s}

\* {} as a routing table.
DizionarioVuoto == [x \in {} |-> x]

\* keys of a neighbour map
Chiavi(vicini) == {vicini[x][1] : x \in DOMAIN vicini}

\* vicini[nome]
Costo(vicini, nome) == vicini[CHOOSE x \in DOMAIN vicini : vicini[x][1] = nome][2]

\* keys of the dict nodi
Nomi(nd) == {nd[x].nome : x \in DOMAIN nd}

\* list(nodi.keys())
ListaNomi(nd) == [x \in DOMAIN nd |-> nd[x].nome]

\* position of nodi[nome]
Indice(nd, nome) == CHOOSE x \in DOMAIN nd : nd[x].nome = nome

\* float addition with infinity
Somma(a, b) == IF a = Inf \/ b = Inf THEN Inf ELSE a + b

-----------------------------------------------------------------------------
(* class Nodo *)

Nodo(nome) == [nome |-> nome, vicini |-> <<>>, tabella_routing |-> DizionarioVuoto]

\* Variant of inizializza_tabella that keeps an entry the table already has.
inizializza_tabella_conserva(self, tutti_i_nodi) ==
    [self EXCEPT !.tabella_routing =
        [nodo \in Range(tutti_i_nodi) |->
            IF nodo \in DOMAIN self.tabella_routing THEN self.tabella_routing[nodo]
            ELSE IF nodo = self.nome THEN <<self.nome, 0>>
            ELSE IF nodo \in Chiavi(self.vicini) THEN <<nodo, Costo(self.vicini, nodo)>>
            ELSE <<"None", Inf>>]]

\* Variant of inizializza_tabella whose loop runs over the node itself and
\* its neighbours instead of all the nodes.
inizializza_tabella_solo_vicini(self, tutti_i_nodi) ==
    [self EXCEPT !.tabella_routing =
        [nodo \in Chiavi(self.vicini) \cup {self.nome} |->
            IF nodo = self.nome THEN <<self.nome, 0>>
            ELSE <<nodo, Costo(self.vicini, nodo)>>]]

\* Variant of inizializza_tabella without the case of the node itself.
inizializza_tabella_senza_se(self, tutti_i_nodi) ==
    [self EXCEPT !.tabella_routing =
        [nodo \in Range(tutti_i_nodi) |->
            IF nodo \in Chiavi(self.vicini) THEN <<nodo, Costo(self.vicini, nodo)>>
            ELSE <<"None", Inf>>]]

\* Nodo.inizializza_tabella: the Nodo with its table rebuilt.
inizializza_tabella(self, tutti_i_nodi) ==
    [self EXCEPT !.tabella_routing =
        [nodo \in Range(tutti_i_nodi) |->
            IF nodo = self.nome THEN <<self.nome, 0>>
            ELSE IF nodo \in Chiavi(self.vicini) THEN <<nodo, Costo(self.vicini, nodo)>>
            ELSE <<"None", Inf>>]]

\* Nodo.invia_vettore
invia_vettore(self) ==
    [dest \in DOMAIN self.tabella_routing |-> self.tabella_routing[dest][2]]

\* Variant of the comparison of aggiorna_tabella: ties update too.
Migliore_o_uguale(nuova_distanza, distanza_corrente) == nuova_distanza <= distanza_corrente

\* Variant of the comparison of aggiorna_tabella: any different value updates.
Migliore_diversa(nuova_distanza, distanza_corrente) == nuova_distanza # distanza_corrente

\* "if nuova_distanza < distanza_corrente"
Migliore(nuova_distanza, distanza_corrente) == nuova_distanza < distanza_corrente

\* Variant of the new entry: the candidate without the cost of the link.
NuovaVoce_senza_costo(mittente, destinazione, costo_verso_mittente, distanza_mittente) ==
    <<mittente, distanza_mittente>>

\* Variant of the new entry: the destination stored as the next hop.
NuovaVoce_hop_destinazione(mittente, destinazione, costo_verso_mittente, distanza_mittente) ==
    <<destinazione, Somma(costo_verso_mittente, distanza_mittente)>>

\* "(mittente, nuova_distanza)" with nuova_distanza = costo + distanza_mittente
NuovaVoce(mittente, destinazione, costo_verso_mittente, distanza_mittente) ==
    <<mittente, Somma(costo_verso_mittente, distanza_mittente)>>

\* Nodo.aggiorna_tabella: the updated Nodo and the returned flag.  The
\* destinations are independent of one another, so the loop over
\* vettore.items() is the pointwise map.  Requires mittente in self.vicini
\* (KeyError otherwise, see ConsegnaKeyError).
aggiorna_tabella(self, mittente, vettore) ==
    LET costo_verso_mittente == Costo(self.vicini, mittente)
        nuova(dest) == NuovaVoce(mittente, dest, costo_verso_mittente, vettore[dest])
        cambia(dest) == Migliore(nuova(dest)[2], self.tabella_routing[dest][2])
    IN  [nodo |-> [self EXCEPT !.tabella_routing =
                      [dest \in DOMAIN self.tabella_routing |->
                          IF dest \in DOMAIN vettore /\ cambia(dest)
                          THEN nuova(dest) ELSE self.tabella_routing[dest]]],
         modificato |-> \E dest \in DOMAIN vettore : cambia(dest)]

-----------------------------------------------------------------------------
(* Topologies: the dict nodi as main() builds it *)

Nomi3 == <<"A", "B", "C">>

Archi3 == {{"A", "B"}, {"A", "C"}, {"B", "C"}}

Coppie3 == {c \in Range(Nomi3) \X Range(Nomi3) : c[1] # c[2]}

\* neighbour map of u: the links of p that touch u, in the order of Nomi3
ViciniDa(u, p, w) ==
    LET s == SelectSeq(Nomi3, LAMBDA v : {u, v} \in p)
    IN  [x \in 1..Len(s) |-> <<s[x], w[<<u, s[x]>>]>>]

\* three nodes, links p, cost w[<<u,v>>] installed in u's map for v
TopologiaGenerica(p, w) ==
    [x \in 1..Len(Nomi3) |->
        [nome |-> Nomi3[x], vicini |-> ViciniDa(Nomi3[x], p, w),
         tabella_routing |-> DizionarioVuoto]]

\* the network of main()
TopologiaMain ==
    << [Nodo("A") EXCEPT !.vicini = << <<"B", 1>>, <<"C", 4>> >>],
       [Nodo("B") EXCEPT !.vicini = << <<"A", 1>>, <<"C", 2>>, <<"D", 7>> >>],
       [Nodo("C") EXCEPT !.vicini = << <<"A", 4>>, <<"B", 2>>, <<"D", 1>> >>],
       [Nodo("D") EXCEPT !.vicini = << <<"B", 7>>, <<"C", 1>> >>] >>

\* the network of main() with only the links of p: every neighbour map keeps
\* its order and its costs, restricted to the neighbours joined by a link of p
TopologiaParziale(p) ==
    [x \in DOMAIN TopologiaMain |->
        [TopologiaMain[x] EXCEPT !.vicini =
            SelectSeq(TopologiaMain[x].vicini,
                      LAMBDA v : {TopologiaMain[x].nome, v[1]} \in p)]]

\* the links of the network of main()
ArchiMain ==
    UNION { { {TopologiaMain[x].nome, TopologiaMain[x].vicini[y][1]} :
                y \in DOMAIN TopologiaMain[x].vicini } :
            x \in DOMAIN TopologiaMain }

\* one node without links
TopologiaIsolato == << Nodo("A") >>

\* a negative link cost
TopologiaNegativa ==
    << [Nodo("A") EXCEPT !.vicini = << <<"B", -1>> >>],
       [Nodo("B") EXCEPT !.vicini = << <<"A", -1>>, <<"C", 1>> >>],
       [Nodo("C") EXCEPT !.vicini = << <<"B", 1>> >>] >>

\* a neighbour map that names Z, which is not a node
TopologiaNonDichiarato ==
    << [Nodo("A") EXCEPT !.vicini = << <<"B", 1>>, <<"C", 2>> >>],
       [Nodo("B") EXCEPT !.vicini = << <<"A", 1>>, <<"C", 0>>, <<"Z", 1>> >>],
       [Nodo("C") EXCEPT !.vicini = << <<"A", 2>>, <<"B", 0>> >>] >>

\* B is a neighbour of A, A is not a neighbour of B
TopologiaAsimmetrica ==
    << [Nodo("A") EXCEPT !.vicini = << <<"C", 1>>, <<"B", 1>> >>],
       [Nodo("B") EXCEPT !.vicini = << <<"C", 1>> >>],
       [Nodo("C") EXCEPT !.vicini = << <<"A", 1>>, <<"B", 1>> >>] >>

Topologie ==
    {TopologiaGenerica(p, w) : p \in SUBSET Archi3, w \in [Coppie3 -> 0..MaxCost]}
    \cup {TopologiaParziale(p) : p \in SUBSET ArchiMain}
    \cup {TopologiaMain, TopologiaIsolato, TopologiaNegativa,
          TopologiaNonDichiarato, TopologiaAsimmetrica}

-----------------------------------------------------------------------------
(* simula *)

\* Variant of the deliveries: the inner loop runs over all the nodes of the
\* snapshot instead of the neighbours of the sender.
RECURSIVE ConsegneDa_tutti(_, _)
ConsegneDa_tutti(snap, i) ==
    IF i > Len(snap) THEN <<>>
    ELSE [x \in 1..Len(snap) |-> [mittente |-> snap[i].nome, vicino |-> snap[x].nome]]
         \o ConsegneDa_tutti(snap, i + 1)

\* The deliveries of a round in the order of the two nested loops
\* "for nome, nodo in snapshot.items(): for vicino in nodo.vicini".
RECURSIVE ConsegneDa(_, _)
ConsegneDa(snap, i) ==
    IF i > Len(snap) THEN <<>>
    ELSE [x \in 1..Len(snap[i].vicini) |->
             [mittente |-> snap[i].nome, vicino |-> snap[i].vicini[x][1]]]
         \o ConsegneDa(snap, i + 1)

Consegne(snap) == ConsegneDa(snap, 1)

\* nodi[vicino].aggiorna_tabella(nome, vettore) can be evaluated
ConsegnaPossibile(nd, c) ==
    /\ c.vicino \in Nomi(nd)
    /\ c.mittente \in Chiavi(nd[Indice(nd, c.vicino)].vicini)

\* "vettore = nodo.invia_vettore()" for the sender of the delivery c
VettoreDi(snap, c) == invia_vettore(snap[Indice(snap, c.mittente)])

\* Variant of a delivery without the deep copy: the vector is read from the
\* live dict nodi.
Consegnato_vivo(nd, snap, c) ==
    LET v == VettoreDi(nd, c)
        r == aggiorna_tabella(nd[Indice(nd, c.vicino)], c.mittente, v)
    IN  [nodi |-> [nd EXCEPT ![Indice(nd, c.vicino)] = r.nodo],
         aggiornato |-> r.modificato, vettore |-> v]

\* one delivery: the dict nodi after it, the flag aggiornato and the vector
\* that was delivered
Consegnato(nd, snap, c) ==
    LET v == VettoreDi(snap, c)
        r == aggiorna_tabella(nd[Indice(nd, c.vicino)], c.mittente, v)
    IN  [nodi |-> [nd EXCEPT ![Indice(nd, c.vicino)] = r.nodo],
         aggiornato |-> r.modificato, vettore |-> v]

\* Variant of the counter: the flag of the latest delivery only.
Conta_ultimo(agg, aggiornato) == IF aggiornato THEN 1 ELSE 0

\* Variant of the counter: every delivery counts.
Conta_sempre(agg, aggiornato) == agg + 1

\* "if aggiornato: aggiornamenti += 1"
Conta(agg, aggiornato) == IF aggiornato THEN agg + 1 ELSE agg

\* Variant of the convergence test that no count satisfies.
NessunAggiornamento_negativo(agg) == agg < 0

\* Variant of the convergence test: one update still counts as none.
NessunAggiornamento_fino_a_uno(agg) == agg <= 1

\* "if aggiornamenti == 0"
NessunAggiornamento(agg) == agg = 0

\* The deliveries cs[i..] applied in order: the body of one iteration of the
\* loop of simula (lines 117-122) from the dict nd and the snapshot snap.
RECURSIVE EseguiConsegne(_, _, _, _, _)
EseguiConsegne(nd, snap, cs, i, agg) ==
    IF i > Len(cs) THEN [nodi |-> nd, aggiornamenti |-> agg]
    ELSE LET r == Consegnato(nd, snap, cs[i])
         IN  EseguiConsegne(r.nodi, snap, cs, i + 1, Conta(agg, r.aggiornato))

\* one whole round from the dict nd: snapshot, then every delivery
Round(nd) == EseguiConsegne(nd, nd, Consegne(nd), 1, 0)

\* the routing tables of all nodes, as stampa_tabella shows them
Tabelle(nd) == [x \in DOMAIN nd |-> nd[x].tabella_routing]

Init ==
    /\ nodi \in Topologie
    /\ max_iter \in 0..MaxIter
    /\ pc = "call"
    /\ iterazione = -1
    /\ aggiornamenti = 0
    /\ snapshot = <<>>
    /\ k = 1
    /\ fatte = {}
    /\ vettore_inviato = DizionarioVuoto
    /\ ret = "running"
    /\ convergenza = FALSE
    /\ storia = <<>>
    /\ storia1 = <<>>
    /\ esecuzione = 1

\* lines 104-108: every node initializes its table; iterazione is not yet
\* assigned in the frame of this call
Inizializza ==
    /\ pc = "call"
    /\ nodi' = [x \in DOMAIN nodi |-> inizializza_tabella(nodi[x], ListaNomi(nodi))]
    /\ iterazione' = -1
    /\ pc' = "for"
    /\ UNCHANGED <<max_iter, aggiornamenti, snapshot, k, fatte, vettore_inviato, ret,
                   convergenza, storia, storia1, esecuzione>>

\* lines 110-115: range(max_iter) yields the next iterazione; the snapshot is
\* taken
InizioIterazione ==
    /\ pc = "for"
    /\ iterazione + 1 < max_iter
    /\ iterazione' = iterazione + 1
    /\ aggiornamenti' = 0
    /\ snapshot' = nodi
    /\ k' = 1
    /\ fatte' = {}
    /\ pc' = IF Len(Consegne(nodi)) = 0 THEN "fine_round" ELSE "consegna"
    /\ UNCHANGED <<nodi, max_iter, vettore_inviato, ret, convergenza,
                   storia, storia1, esecuzione>>

\* lines 118-122: one delivery of the sender's snapshot vector
Consegna ==
    /\ pc = "consegna"
    /\ k <= Len(Consegne(snapshot))
    /\ ConsegnaPossibile(nodi, Consegne(snapshot)[k])
    /\ LET r == Consegnato(nodi, snapshot, Consegne(snapshot)[k])
       IN  /\ nodi' = r.nodi
           /\ vettore_inviato' = r.vettore
           /\ aggiornamenti' = Conta(aggiornamenti, r.aggiornato)
    /\ k' = k + 1
    /\ fatte' = fatte \cup {k}
    /\ pc' = IF k = Len(Consegne(snapshot)) THEN "fine_round" ELSE "consegna"
    /\ UNCHANGED <<max_iter, iterazione, snapshot, ret, convergenza, storia,
                   storia1, esecuzione>>

\* line 120 / line 48: nodi[vicino] or self.vicini[mittente] raises KeyError,
\* which nothing catches: simula ends with the exception
ConsegnaKeyError ==
    /\ pc = "consegna"
    /\ k <= Len(Consegne(snapshot))
    /\ ~ConsegnaPossibile(nodi, Consegne(snapshot)[k])
    /\ vettore_inviato' = VettoreDi(snapshot, Consegne(snapshot)[k])
    /\ pc' = "raised"
    /\ ret' = "KeyError"
    /\ UNCHANGED <<nodi, max_iter, iterazione, aggiornamenti, snapshot, k, fatte,
                   convergenza, storia, storia1, esecuzione>>

\* lines 124-129: the tables of the round are printed and the graph is
\* drawn; disegna_grafo then waits in plt.pause (line 91), with the round
\* shown and the convergence test not yet made
MostraIterazione ==
    /\ pc = "fine_round"
    /\ storia' = Append(storia, [tabelle |-> Tabelle(nodi), aggiornamenti |-> aggiornamenti])
    /\ pc' = "pausa"
    /\ UNCHANGED <<nodi, max_iter, iterazione, aggiornamenti, snapshot, k, fatte,
                   vettore_inviato, ret, convergenza, storia1, esecuzione>>

\* lines 132-134, after plt.pause has returned: no update in the round:
\* "Convergenza raggiunta" is printed and the loop is left; otherwise the
\* loop goes on
FineIterazione ==
    /\ pc = "pausa"
    /\ IF NessunAggiornamento(aggiornamenti)
       THEN /\ convergenza' = TRUE
            /\ pc' = "break"
            /\ ret' = "None"
       ELSE /\ pc' = "for"
            /\ UNCHANGED <<convergenza, ret>>
    /\ UNCHANGED <<nodi, max_iter, iterazione, aggiornamenti, snapshot, k, fatte,
                   vettore_inviato, storia, storia1, esecuzione>>

\* line 110: range(max_iter) is exhausted, simula returns
FineCiclo ==
    /\ pc = "for"
    /\ iterazione + 1 >= max_iter
    /\ pc' = "loop_end"
    /\ ret' = "None"
    /\ UNCHANGED <<nodi, max_iter, iterazione, aggiornamenti, snapshot, k, fatte,
                   vettore_inviato, convergenza, storia, storia1, esecuzione>>

\* the caller calls simula(nodi, G, pos, max_iter) once more on the same
\* node objects, after the first call returned
Riesegui ==
    /\ pc \in {"break", "loop_end"}
    /\ esecuzione = 1
    /\ esecuzione' = 2
    /\ storia1' = storia
    /\ storia' = <<>>
    /\ convergenza' = FALSE
    /\ ret' = "running"
    /\ pc' = "call"
    /\ UNCHANGED <<nodi, max_iter, iterazione, aggiornamenti, snapshot, k, fatte,
                   vettore_inviato>>

Next ==
    \/ Inizializza
    \/ InizioIterazione
    \/ Consegna
    \/ ConsegnaKeyError
    \/ MostraIterazione
    \/ FineIterazione
    \/ FineCiclo
    \/ Riesegui

Spec == Init /\ [][Next]_vars

\* the steps of simula itself: a call that has started runs on, statement
\* after statement, until it returns or raises
Simula ==
    \/ Inizializza
    \/ InizioIterazione
    \/ Consegna
    \/ ConsegnaKeyError
    \/ MostraIterazione
    \/ FineIterazione
    \/ FineCiclo

-----------------------------------------------------------------------------
(* The topology as a weighted graph, independently of the routing tables *)

\* the neighbour maps of all nodes
Mappe(nd) == [x \in DOMAIN nd |-> nd[x].vicini]

\* every neighbour is a node and names this node as its neighbour
Simmetrica(nd) ==
    \A x \in DOMAIN nd : \A v \in Chiavi(nd[x].vicini) :
        /\ v \in Nomi(nd)
        /\ nd[x].nome \in Chiavi(nd[Indice(nd, v)].vicini)

NonNegativa(nd) ==
    \A x \in DOMAIN nd : \A y \in DOMAIN nd[x].vicini : nd[x].vicini[y][2] >= 0

\* costs of the simple paths from u to d that avoid the nodes of visitati
RECURSIVE CostiCammini(_, _, _, _)
CostiCammini(nd, u, d, visitati) ==
    IF u = d THEN {0}
    ELSE LET vic == nd[Indice(nd, u)].vicini
             avanti == {y \in DOMAIN vic :
                           vic[y][1] \in Nomi(nd) \ (visitati \cup {u})}
         IN  UNION { {vic[y][2] + c :
                         c \in CostiCammini(nd, vic[y][1], d, visitati \cup {u})} :
                     y \in avanti }

Minimo(S) == CHOOSE m \in S : \A n \in S : m <= n

\* true shortest-path distance from u to d (non-negative costs)
DistanzaMinima(nd, u, d) ==
    LET S == CostiCammini(nd, u, d, {})
    IN  IF S = {} THEN Inf ELSE Minimo(S)

Connessa(nd) ==
    \A u \in Nomi(nd) : \A d \in Nomi(nd) : CostiCammini(nd, u, d, {}) # {}

\* the last round shown had changed-count 0
UltimoRoundFermo == Len(storia) > 0 /\ storia[Len(storia)].aggiornamenti = 0

-----------------------------------------------------------------------------
(* Rounds whose deliveries are made in an arbitrary order (section 5 of the *)
(* specification: the deliveries of a round dispatched concurrently, one    *)
(* update at a time per node, with a barrier at the end of the round)       *)

TopologieOrdine ==
    {TopologiaGenerica(p, w) : p \in SUBSET Archi3, w \in [Coppie3 -> 0..MaxCostOrdine]}
    \cup {TopologiaParziale(p) : p \in SUBSET ArchiMain}
    \cup {TopologiaMain, TopologiaIsolato, TopologiaNegativa}

InitOrdine ==
    /\ nodi \in TopologieOrdine
    /\ max_iter = MaxIter
    /\ pc = "call"
    /\ iterazione = -1
    /\ aggiornamenti = 0
    /\ snapshot = <<>>
    /\ k = 1
    /\ fatte = {}
    /\ vettore_inviato = DizionarioVuoto
    /\ ret = "running"
    /\ convergenza = FALSE
    /\ storia = <<>>
    /\ storia1 = <<>>
    /\ esecuzione = 1

\* lines 118-122 for any one of the deliveries of the round not yet made
ConsegnaQualsiasi ==
    /\ pc = "consegna"
    /\ \E i \in (1..Len(Consegne(snapshot))) \ fatte :
          /\ ConsegnaPossibile(nodi, Consegne(snapshot)[i])
          /\ LET r == Consegnato(nodi, snapshot, Consegne(snapshot)[i])
             IN  /\ nodi' = r.nodi
                 /\ vettore_inviato' = r.vettore
                 /\ aggiornamenti' = Conta(aggiornamenti, r.aggiornato)
          /\ fatte' = fatte \cup {i}
    /\ k' = k + 1
    /\ pc' = IF k = Len(Consegne(snapshot)) THEN "fine_round" ELSE "consegna"
    /\ UNCHANGED <<max_iter, iterazione, snapshot, ret, convergenza, storia,
                   storia1, esecuzione>>

NextOrdine ==
    \/ Inizializza
    \/ InizioIterazione
    \/ ConsegnaQualsiasi
    \/ MostraIterazione
    \/ FineIterazione
    \/ FineCiclo

SpecOrdine == InitOrdine /\ [][NextOrdine]_vars

\* One call of simula, which runs to its end: the steps of simula are taken
\* as long as one is enabled.
InitFair ==
    /\ nodi \in TopologieOrdine \cup {TopologiaNonDichiarato, TopologiaAsimmetrica}
    /\ max_iter = MaxIter
    /\ pc = "call"
    /\ iterazione = -1
    /\ aggiornamenti = 0
    /\ snapshot = <<>>
    /\ k = 1
    /\ fatte = {}
    /\ vettore_inviato = DizionarioVuoto
    /\ ret = "running"
    /\ convergenza = FALSE
    /\ storia = <<>>
    /\ storia1 = <<>>
    /\ esecuzione = 1

SpecFair == InitFair /\ [][Simula]_vars /\ WF_vars(Simula)

\* the dict nodi after r rounds of simula, in the order of the code, and the
\* changed-count of the last of them
RECURSIVE DopoRound(_, _)
DopoRound(nd, r) ==
    IF r = 0 THEN [nodi |-> nd, aggiornamenti |-> 0]
    ELSE Round(DopoRound(nd, r - 1).nodi)

\* the dict nodi right after lines 104-108
NodiIniziali(nd) == [x \in DOMAIN nd |-> inizializza_tabella(nd[x], ListaNomi(nd))]

\* the distance components of the tables of all nodes
Distanze(tabelle) == [x \in DOMAIN tabelle |-> [d \in DOMAIN tabelle[x] |-> tabelle[x][d][2]]]

-----------------------------------------------------------------------------
(* Claims *)

\* C1: on a topology with symmetric neighbour maps, non-negative costs and a
\* connected graph, when a round ends with changed-count 0 every stored
\* distance is the true shortest-path distance, and every next hop towards
\* another node is a direct neighbour n with
\* cost(u,n) + distance stored at n = distance stored at u; from the moment
\* that round is shown, before and after the convergence test.
C1_FixedPointShortestPaths ==
    (UltimoRoundFermo /\ pc \in {"pausa", "break"} /\ Simmetrica(nodi) /\ NonNegativa(nodi)
        /\ Connessa(nodi))
    => \A x \in DOMAIN nodi : \A d \in Nomi(nodi) :
          LET u == nodi[x]
              voce == u.tabella_routing[d]
          IN  /\ voce[2] = DistanzaMinima(nodi, u.nome, d)
              /\ d # u.nome =>
                    /\ voce[1] \in Chiavi(u.vicini)
                    /\ Costo(u.vicini, voce[1])
                         + nodi[Indice(nodi, voce[1])].tabella_routing[d][2] = voce[2]

\* a connected valid topology converged with a route through another node
C1_Witness ==
    /\ UltimoRoundFermo /\ pc = "break"
    /\ Simmetrica(nodi) /\ NonNegativa(nodi) /\ Connessa(nodi)
    /\ \E x \in DOMAIN nodi : \E d \in Nomi(nodi) :
          /\ d # nodi[x].nome
          /\ nodi[x].tabella_routing[d][1] # d
          /\ nodi[x].tabella_routing[d][2] = DistanzaMinima(nodi, nodi[x].nome, d)

DistanzeNonCrescenti(t1, t2) ==
    \A x \in DOMAIN t1 : \A d \in DOMAIN t1[x] : t2[x][d][2] <= t1[x][d][2]

\* C2: the distance of a routing entry never increases: not across a single
\* delivery, and not from the tables of one round to those of the next.
C2_Monotonicity ==
    /\ [](\A r \in 1..(Len(storia) - 1) :
             DistanzeNonCrescenti(storia[r].tabelle, storia[r + 1].tabelle))
    /\ [][pc # "call" => DistanzeNonCrescenti(Tabelle(nodi), Tabelle(nodi'))]_vars

\* a distance that was finite after round 1 is smaller after round 2
C2_Witness ==
    /\ Len(storia) >= 2
    /\ \E x \in DOMAIN nodi : \E d \in Nomi(nodi) :
          /\ storia[1].tabelle[x][d][2] < Inf
          /\ storia[2].tabelle[x][d][2] < storia[1].tabelle[x][d][2]

\* C3: with non-negative link costs, after initialization every node's entry
\* for its own identity is (own identity, 0), after every delivery.
C3_SelfDistance ==
    (pc # "call" /\ NonNegativa(nodi))
    => \A x \in DOMAIN nodi :
          nodi[x].tabella_routing[nodi[x].nome] = <<nodi[x].nome, 0>>

\* a node has received, over a zero-cost link, a vector from a neighbour
\* whose distance to that node is 0
C3_Witness ==
    /\ pc = "consegna" /\ k > 1 /\ NonNegativa(nodi)
    /\ LET c == Consegne(snapshot)[k - 1]
           dest == nodi[Indice(nodi, c.vicino)]
       IN  /\ Costo(dest.vicini, c.mittente) = 0
           /\ snapshot[Indice(snapshot, c.mittente)].tabella_routing[c.vicino][2] = 0
           /\ dest.tabella_routing[c.vicino] = <<c.vicino, 0>>

\* C4: when a round ended with changed-count 0, one more round from the
\* resulting state has changed-count 0 and leaves every table as it is; from
\* the moment that round is shown, before and after the convergence test.
C4_IdempotentAtFixedPoint ==
    (UltimoRoundFermo /\ pc \in {"pausa", "break"})
    => /\ Round(nodi).aggiornamenti = 0
       /\ Tabelle(Round(nodi).nodi) = Tabelle(nodi)

\* a run that needed updates has stopped at a round with changed-count 0
C4_Witness ==
    /\ UltimoRoundFermo /\ pc = "break"
    /\ Len(storia) >= 2
    /\ Len(Consegne(nodi)) > 0

\* C5: the simulator is in Converged only when the last round had
\* changed-count 0; once a round with changed-count 0 has been shown, the
\* call is either still waiting at the end of that round or in Converged;
\* the step that finishes a round enters Converged when the changed-count
\* of the round is 0 and goes on with the loop when it is not; no earlier
\* round had changed-count 0; a call in Converged executes nothing more; and
\* a call that returned without converging has executed max_iter rounds.
C5_ConvergedIffNoChange ==
    /\ [](/\ pc = "break" => UltimoRoundFermo
          /\ UltimoRoundFermo => pc \in {"pausa", "break"}
          /\ \A r \in 1..(Len(storia) - 1) : storia[r].aggiornamenti # 0
          /\ (ret = "None" /\ pc # "break") => Len(storia) = max_iter
          /\ Len(storia) <= max_iter)
    /\ [][pc = "pausa" =>
             /\ pc' = "break" <=> UltimoRoundFermo
             /\ pc' = "for" <=> ~UltimoRoundFermo
             /\ storia' = storia /\ nodi' = nodi]_vars
    /\ [][pc = "break" => esecuzione' # esecuzione]_vars

\* the run stopped at its third round, the first with changed-count 0
C5_Witness ==
    /\ pc = "break" /\ Len(storia) = 3 /\ max_iter = 3
    /\ storia[2].aggiornamenti > 0 /\ storia[3].aggiornamenti = 0

\* C6: a call that executed max_iter rounds, each with a non-zero
\* changed-count, reports IterationLimitReached to its caller, a result
\* distinct from the one a converged run reports.
C6_IterationLimitReported ==
    (pc = "loop_end" /\ Len(storia) = max_iter
        /\ \A r \in 1..Len(storia) : storia[r].aggiornamenti # 0)
    => ret = "IterationLimitReached"

\* the topology is the network of main()
ReteMain == Mappe(nodi) = Mappe(TopologiaMain)

\* C7: on the network of main() the run converges no later than round 3,
\* with A->A = (A,0), A->B = (B,1), A->C = (B,3), A->D = (B,4),
\* B->D = (C,3), C->D = (D,1).
C7_MainScenario ==
    ReteMain =>
       /\ Len(storia) <= 3
       /\ (max_iter >= 3 /\ ret = "None") =>
             /\ pc = "break"
             /\ nodi[Indice(nodi, "A")].tabella_routing["A"] = <<"A", 0>>
             /\ nodi[Indice(nodi, "A")].tabella_routing["B"] = <<"B", 1>>
             /\ nodi[Indice(nodi, "A")].tabella_routing["C"] = <<"B", 3>>
             /\ nodi[Indice(nodi, "A")].tabella_routing["D"] = <<"B", 4>>
             /\ nodi[Indice(nodi, "B")].tabella_routing["D"] = <<"C", 3>>
             /\ nodi[Indice(nodi, "C")].tabella_routing["D"] = <<"D", 1>>

\* the network of main() has converged in its third round
C7_Witness ==
    /\ ReteMain /\ max_iter = 3 /\ esecuzione = 1
    /\ pc = "break" /\ Len(storia) = 3

\* the table a node has right after initialization
TabellaIniziale(nd, x) == inizializza_tabella(nd[x], ListaNomi(nd)).tabella_routing

\* C8: with non-negative costs, in every state after initialization every
\* finite distance stored at u for d is the cost of a path of the topology
\* from u to d that starts with the link to the stored next hop; it is at
\* least the true shortest-path distance and at most the initial value.
C8_TablesNeverCorrupted ==
    (pc # "call" /\ NonNegativa(nodi))
    => \A x \in DOMAIN nodi : \A d \in Nomi(nodi) :
          LET u == nodi[x]
              voce == u.tabella_routing[d]
          IN  voce[2] < Inf =>
                /\ IF d = u.nome THEN voce = <<u.nome, 0>>
                   ELSE /\ voce[1] \in Chiavi(u.vicini) \cap Nomi(nodi)
                        /\ \E c \in CostiCammini(nodi, voce[1], d, {u.nome}) :
                              Costo(u.vicini, voce[1]) + c = voce[2]
                /\ voce[2] >= DistanzaMinima(nodi, u.nome, d)
                /\ voce[2] <= TabellaIniziale(nodi, x)[d][2]

\* the run used up max_iter rounds and a finite distance is not yet minimal
C8_Witness ==
    /\ pc = "loop_end" /\ max_iter >= 1 /\ Len(storia) = max_iter
    /\ NonNegativa(nodi) /\ Simmetrica(nodi)
    /\ \E x \in DOMAIN nodi : \E d \in Nomi(nodi) :
          /\ nodi[x].tabella_routing[d][2] < Inf
          /\ nodi[x].tabella_routing[d][2] > DistanzaMinima(nodi, nodi[x].nome, d)
          /\ nodi[x].tabella_routing[d][2] < TabellaIniziale(nodi, x)[d][2]

\* C9: a second call of simula on the same node objects, in whatever state
\* the first call left them, shows round by round the same tables and
\* changed-counts as the first call, and ends after as many rounds.
C9_Replay ==
    esecuzione = 2 =>
       /\ Len(storia) <= Len(storia1)
       /\ \A r \in 1..Len(storia) : storia[r] = storia1[r]
       /\ pc \in {"break", "loop_end"} => storia = storia1

\* the second call has ended, two rounds or more after tables that the
\* first call had changed
C9_Witness ==
    /\ esecuzione = 2 /\ pc \in {"break", "loop_end"}
    /\ Len(storia) >= 2
    /\ storia[1].aggiornamenti > 0
    /\ storia[1].tabelle # storia[Len(storia)].tabelle

\* a neighbour map names an undeclared identity or holds a negative cost
TopologiaInvalida(nd) ==
    \E x \in DOMAIN nd : \E y \in DOMAIN nd[x].vicini :
        nd[x].vicini[y][1] \notin Nomi(nd) \/ nd[x].vicini[y][2] < 0

\* C10: on an invalid topology the simulation does not start: no round is
\* executed and no update modifies a routing table.
C10_InvalidTopologyRejected ==
    TopologiaInvalida(nodi) =>
       /\ pc \notin {"consegna", "fine_round", "pausa", "raised"}
       /\ storia = <<>>
       /\ pc # "call" =>
             \A x \in DOMAIN nodi : nodi[x].tabella_routing = TabellaIniziale(nodi, x)

\* C11: on a topology whose neighbour maps are symmetric and name only
\* declared nodes, simula never calls aggiorna_tabella with a sender that
\* the receiver's neighbour map lacks (no KeyError is raised); and a call
\* with such a sender raises without changing any routing table.
C11_SenderIsNeighbour ==
    /\ [](Simmetrica(nodi) =>
             /\ pc # "raised"
             /\ pc = "consegna" => ConsegnaPossibile(nodi, Consegne(snapshot)[k]))
    /\ [][(pc # "raised" /\ pc' = "raised") => nodi' = nodi]_vars

\* after a first delivery, a declared receiver was called with a sender that
\* is not in its neighbour map, and the call raised
C11_Witness ==
    /\ pc = "raised" /\ fatte # {}
    /\ LET c == Consegne(snapshot)[k]
       IN  /\ c.vicino \in Nomi(nodi)
           /\ c.mittente \notin Chiavi(nodi[Indice(nodi, c.vicino)].vicini)
           /\ nodi[Indice(nodi, c.vicino)].tabella_routing
                = TabellaIniziale(nodi, Indice(nodi, c.vicino))

\* the topology is the single node without links
ReteIsolata == Mappe(nodi) = Mappe(TopologiaIsolato)

\* C12: a single node with an empty neighbour map converges in round 1 with
\* changed-count 0, for every max_iter >= 1, and its table holds only the
\* entry (self, 0).
C12_IsolatedNode ==
    ReteIsolata =>
       /\ Len(storia) <= 1
       /\ pc # "raised"
       /\ (max_iter >= 1 /\ ret = "None") =>
             /\ pc = "break"
             /\ Len(storia) = 1
             /\ storia[1].aggiornamenti = 0
             /\ Tabelle(nodi) = << [d \in {"A"} |-> <<"A", 0>>] >>

\* the isolated node has converged
C12_Witness ==
    /\ ReteIsolata /\ max_iter >= 1 /\ pc = "break"
    /\ Len(storia) = 1

\* the export of the sender of c at the end of the previous round (the
\* initialized table before round 1)
VettorePrecedente(c) ==
    LET x == Indice(nodi, c.mittente)
        t == IF Len(storia) = 0 THEN TabellaIniziale(nodi, x)
             ELSE storia[Len(storia)].tabelle[x]
    IN  [d \in DOMAIN t |-> t[d][2]]

\* C13: the vector a node delivers in a round is its export at the end of
\* the previous round, also when an earlier delivery of the round has
\* already updated the sender's own table.
C13_SnapshotIsolation ==
    /\ (pc \in {"consegna", "fine_round"} /\ fatte # {})
          => vettore_inviato = VettorePrecedente(Consegne(snapshot)[k - 1])
    /\ pc = "raised" => vettore_inviato = VettorePrecedente(Consegne(snapshot)[k])

\* the sender of the latest delivery had already been updated in this round
\* when it delivered: its live distances differ from the vector it sent
C13_Witness ==
    /\ pc \in {"consegna", "fine_round"} /\ fatte # {}
    /\ LET c == Consegne(snapshot)[k - 1]
       IN  /\ invia_vettore(nodi[Indice(nodi, c.mittente)]) # vettore_inviato
           /\ nodi[Indice(nodi, c.vicino)].tabella_routing
                # snapshot[Indice(snapshot, c.vicino)].tabella_routing

\* C14: whatever the order in which the deliveries of each round are made,
\* every round ends with the same distances as the round of the code's
\* order, and with a changed-count that is 0 in the same cases; so the round
\* in which the run converges does not depend on the order.
C14_OrderIndependence ==
    \A r \in 1..Len(storia) :
        LET codice == DopoRound(NodiIniziali(nodi), r)
        IN  /\ Distanze(storia[r].tabelle) = Distanze(Tabelle(codice.nodi))
            /\ storia[r].aggiornamenti = 0 <=> codice.aggiornamenti = 0

\* a round made in another order than the code's has ended with another
\* changed-count than the code's round, and a later round has ended too
C14_Witness ==
    /\ Len(storia) >= 2
    /\ storia[1].aggiornamenti # DopoRound(NodiIniziali(nodi), 1).aggiornamenti
    /\ storia[1].aggiornamenti > 0

\* C15: a delivery replaces the receiver's entry for a destination by
\* (sender, cost to the sender + sender's distance) exactly when that
\* candidate is strictly smaller than the stored distance and leaves every
\* other entry, next hop and distance, as it is; it returns true (the
\* changed-count grows by one) iff an entry was replaced; it changes nothing
\* but the receiver's routing table.
C15_UpdateRule ==
    [][(pc = "consegna" /\ pc' # "raised") =>
          LET c == Consegne(snapshot)[k]
              x == Indice(nodi, c.vicino)
              vecchia == nodi[x].tabella_routing
              nuova == nodi'[x].tabella_routing
              costo == Costo(nodi[x].vicini, c.mittente)
              candidato(d) == IF vettore_inviato'[d] = Inf THEN Inf
                              ELSE costo + vettore_inviato'[d]
          IN  /\ DOMAIN nuova = DOMAIN vecchia
              /\ \A d \in DOMAIN vecchia :
                    IF candidato(d) < vecchia[d][2]
                    THEN nuova[d] = <<c.mittente, candidato(d)>>
                    ELSE nuova[d] = vecchia[d]
              /\ aggiornamenti' \in {aggiornamenti, aggiornamenti + 1}
              /\ aggiornamenti' = aggiornamenti + 1
                    <=> \E d \in DOMAIN vecchia : candidato(d) < vecchia[d][2]
              /\ \A y \in DOMAIN nodi : y # x => nodi'[y] = nodi[y]
              /\ nodi'[x].vicini = nodi[x].vicini /\ nodi'[x].nome = nodi[x].nome
              /\ snapshot' = snapshot /\ storia' = storia /\ max_iter' = max_iter
      ]_vars

\* the latest delivery has left alone an entry (not the receiver's own)
\* whose candidate was equal to the stored distance and whose next hop is
\* another node than the sender, in a round in which a delivery has replaced
\* an entry by (sender, candidate)
C15_Witness ==
    /\ pc \in {"consegna", "fine_round"} /\ fatte # {}
    /\ aggiornamenti > 0
    /\ LET c == Consegne(snapshot)[k - 1]
           u == nodi[Indice(nodi, c.vicino)]
           costo == Costo(u.vicini, c.mittente)
       IN  \E d \in DOMAIN u.tabella_routing :
              /\ vettore_inviato[d] < Inf
              /\ u.tabella_routing[d][2] = costo + vettore_inviato[d]
              /\ d # u.nome
              /\ u.tabella_routing[d][1] # c.mittente
    /\ \E x \in DOMAIN nodi : \E d \in DOMAIN nodi[x].tabella_routing :
          /\ nodi[x].tabella_routing[d] # snapshot[x].tabella_routing[d]
          /\ nodi[x].tabella_routing[d][1] \in Chiavi(nodi[x].vicini)

\* the deliveries of the round from the snapshot snap whose call of
\* aggiorna_tabella returns True, by their positions in Consegne(snap)
ConsegneVere(snap) ==
    LET cs == Consegne(snap)
    IN  {i \in 1..Len(cs) :
            Consegnato(EseguiConsegne(snap, snap, SubSeq(cs, 1, i - 1), 1, 0).nodi,
                       snap, cs[i]).aggiornato}

\* number of entries in which the tables t1 and t2 differ
VociDiverse(t1, t2) ==
    Cardinality({xd \in (DOMAIN t1) \X (UNION {DOMAIN t1[x] : x \in DOMAIN t1}) :
                    t1[xd[1]][xd[2]] # t2[xd[1]][xd[2]]})

\* C16: the changed-count of a round is the number of its deliveries whose
\* update returned true (one per delivery, however many entries it
\* replaced); it lies between 0 and the number of directed links, and it is
\* 0 iff no routing entry changed during the round.
C16_ChangedCount ==
    /\ [](/\ pc \in {"consegna", "fine_round"} =>
                /\ aggiornamenti \in 0..Cardinality(fatte)
                /\ Cardinality(fatte) <= Len(Consegne(nodi))
          /\ pc = "fine_round" =>
                aggiornamenti = Cardinality(ConsegneVere(snapshot))
          /\ \A r \in 1..Len(storia) :
                /\ storia[r].aggiornamenti \in 0..Len(Consegne(nodi))
                /\ storia[r].aggiornamenti = 0
                      <=> storia[r].tabelle
                            = (IF r = 1 THEN Tabelle(NodiIniziali(nodi))
                               ELSE storia[r - 1].tabelle))
    /\ [][(pc = "consegna" /\ pc' # "raised") =>
             aggiornamenti' = aggiornamenti + (IF nodi' # nodi THEN 1 ELSE 0)]_vars

\* a round has ended in which fewer deliveries returned true than entries
\* were replaced
C16_Witness ==
    /\ pc = "fine_round"
    /\ aggiornamenti > 0
    /\ aggiornamenti < VociDiverse(Tabelle(nodi), Tabelle(snapshot))
    /\ aggiornamenti < Len(Consegne(nodi))

\* C17: after initialization every routing table has exactly the identities
\* of the node collection as its keys, in every later state; initialization
\* sets (self, 0), (neighbour, link cost) for each neighbour and
\* (None, infinity) for every other identity.
C17_OneEntryPerIdentity ==
    /\ (pc # "call" \/ esecuzione = 2) =>
          \A x \in DOMAIN nodi : DOMAIN nodi[x].tabella_routing = Nomi(nodi)
    /\ (pc = "for" /\ storia = <<>>) =>
          \A x \in DOMAIN nodi : \A d \in Nomi(nodi) :
             nodi[x].tabella_routing[d] =
                IF d = nodi[x].nome THEN <<d, 0>>
                ELSE IF \E y \in DOMAIN nodi[x].vicini : nodi[x].vicini[y][1] = d
                     THEN <<d, Costo(nodi[x].vicini, d)>>
                     ELSE <<"None", Inf>>

\* a round with updates has ended on a topology of three nodes or more in
\* which a node started with an entry (None, infinity)
C17_Witness ==
    /\ pc = "fine_round" /\ aggiornamenti > 0
    /\ Len(nodi) >= 3
    /\ \E x \in DOMAIN nodi : \E d \in Nomi(nodi) :
          /\ TabellaIniziale(nodi, x)[d] = <<"None", Inf>>
          /\ nodi[x].tabella_routing[d][2] < Inf

\* smallest cost of a path from u to d with at most h links (non-negative
\* costs), Inf when there is none
RECURSIVE DistLimitata(_, _, _, _)
DistLimitata(nd, u, d, h) ==
    IF u = d THEN 0
    ELSE IF h = 0 THEN Inf
    ELSE LET vic == nd[Indice(nd, u)].vicini
         IN  Minimo({Inf} \cup
                    {Somma(vic[y][2], DistLimitata(nd, vic[y][1], d, h - 1)) :
                        y \in {z \in DOMAIN vic : vic[z][1] \in Nomi(nd)}})

\* C18: on a topology with symmetric neighbour maps and non-negative costs,
\* the distance stored at u for d at the end of round r (r = 0: after
\* initialization) is the smallest cost of a path from u to d with at most
\* r + 1 links, infinite when there is none.
C18_HopBounded ==
    (Simmetrica(nodi) /\ NonNegativa(nodi) /\ pc \in {"for", "pausa", "break"})
    => \A x \in DOMAIN nodi : \A d \in Nomi(nodi) :
          nodi[x].tabella_routing[d][2]
             = DistLimitata(nodi, nodi[x].nome, d, Len(storia) + 1)

\* round 2 has ended and has brought a distance below its value after round
\* 1: a path of three links is the shortest so far
C18_Witness ==
    /\ Simmetrica(nodi) /\ NonNegativa(nodi)
    /\ pc \in {"for", "break"} /\ Len(storia) = 2
    /\ \E x \in DOMAIN nodi : \E d \in Nomi(nodi) :
          storia[2].tabelle[x][d][2] < storia[1].tabelle[x][d][2]

Massimo(a, b) == IF a >= b THEN a ELSE b

\* the hypothesis of C19
EntroLimite ==
    /\ Simmetrica(nodi) /\ NonNegativa(nodi)
    /\ max_iter >= Massimo(1, Len(nodi) - 1)

\* C19: on a topology of n nodes with symmetric neighbour maps and
\* non-negative costs, a call with max_iter >= max(1, n-1) converges, no
\* later than round max(1, n-1), and never exhausts its rounds.
C19_ConvergenceBound ==
    /\ [](EntroLimite =>
             /\ Len(storia) <= Massimo(1, Len(nodi) - 1)
             /\ iterazione < Massimo(1, Len(nodi) - 1)
             /\ pc \notin {"loop_end", "raised"})
    /\ (EntroLimite /\ pc = "call") ~> (pc = "break")

\* a four-node network has converged in round 3
C19_Witness ==
    /\ EntroLimite /\ pc = "break"
    /\ Len(nodi) = 4 /\ Len(storia) = 3
    /\ storia[2].aggiornamenti > 0

\* following the next hops towards d from u reaches d without entering a
\* node a second time
RECURSIVE Raggiunge(_, _, _, _)
Raggiunge(nd, u, d, visitati) ==
    IF u = d THEN TRUE
    ELSE IF u \in visitati \/ u \notin Nomi(nd) THEN FALSE
    ELSE Raggiunge(nd, nd[Indice(nd, u)].tabella_routing[d][1], d, visitati \cup {u})

\* C20: with symmetric neighbour maps and non-negative costs, in every state
\* after initialization the next hop is None exactly when the distance is
\* infinite, every other next hop towards another node is a direct
\* neighbour, and the next hops from a node with a finite distance to d lead
\* to d without a loop.
C20_NoRoutingLoops ==
    (Simmetrica(nodi) /\ NonNegativa(nodi) /\ pc # "call")
    => \A x \in DOMAIN nodi : \A d \in Nomi(nodi) :
          LET u == nodi[x]
              voce == u.tabella_routing[d]
          IN  /\ voce[1] = "None" <=> voce[2] = Inf
              /\ (d # u.nome /\ voce[1] # "None") => voce[1] \in Chiavi(u.vicini)
              /\ voce[2] < Inf => Raggiunge(nodi, u.nome, d, {})

\* in the middle of a round a node routes to a destination through another
\* node over a zero-cost link
C20_Witness ==
    /\ Simmetrica(nodi) /\ NonNegativa(nodi)
    /\ pc = "consegna" /\ fatte # {}
    /\ \E x \in DOMAIN nodi : \E d \in Nomi(nodi) :
          LET voce == nodi[x].tabella_routing[d]
          IN  /\ d # nodi[x].nome /\ voce[2] < Inf
              /\ voce[1] # d
              /\ Costo(nodi[x].vicini, voce[1]) = 0
              /\ nodi[x].tabella_routing # snapshot[x].tabella_routing

=============================================================================
